---- MODULE Spec2Model ----
(***************************************************************************)
(* Zoo app: a read-only Flask API over three SQLAlchemy models (Animal,    *)
(* Zookeeper, Enclosure) rendered with marshmallow schemas.                *)
(*   server/models.py  the tables, the relationships and the schemas       *)
(*   server/app.py     the routes and the three lookup handlers            *)
(***************************************************************************)
EXTENDS Integers, Sequences, FiniteSets, TLC

\* ------------------------------------------------------------------------
\* Bounds of the model
\* ------------------------------------------------------------------------
MaxAnimals == 2
MaxKeepers == 2
MaxEnclosures == 2
\* nesting depth of Schema.dump calls after which the interpreter gives up
RecursionLimit == 6

\* ------------------------------------------------------------------------
\* Python values: None and present values
\* ------------------------------------------------------------------------
None == <<>>
Some(x) == <<x>>

\* JSON values of a response body, tagged by type
JNull == [type |-> "null"]
JInt(i) == [type |-> "int", val |-> i]
JStr(s) == [type |-> "str", val |-> s]
JBool(b) == [type |-> "bool", val |-> b]
JMap(m) == [type |-> "map", val |-> m]
JList(l) == [type |-> "list", val |-> l]

\* the outcome of a dump that exhausted the call stack
RecursionError == [type |-> "error"]

\* ------------------------------------------------------------------------
\* State
\* ------------------------------------------------------------------------
VARIABLES
    animals,      \* rows of table 'animals'
    zookeepers,   \* rows of table 'zookeepers'
    enclosures,   \* rows of table 'enclosures'
    request,      \* path of the request handled last
    response,     \* the response to it
    queries       \* the primary-key queries issued while handling it

vars == <<animals, zookeepers, enclosures, request, response, queries>>
store == <<animals, zookeepers, enclosures>>

\* ------------------------------------------------------------------------
\* models.py: tables
\* ------------------------------------------------------------------------
AnimalNames == <<"Fred", "Gia", "Hal", "Ida">>
KeeperNames == <<"Jo", "Kim", "Lee", "Mo">>
Environments == <<"savanna", "pond", "cave", "reef">>

\* class Animal: id, name, species, zookeeper_id, enclosure_id
Animal(id, zookeeper_id, enclosure_id) ==
    [tablename |-> "animals", id |-> id, name |-> AnimalNames[id],
     species |-> IF id % 2 = 1 THEN "giraffe" ELSE "otter",
     zookeeper_id |-> zookeeper_id, enclosure_id |-> enclosure_id]

\* class Zookeeper: id, name, birthday (a nullable Date)
Zookeeper(id) ==
    [tablename |-> "zookeepers", id |-> id, name |-> KeeperNames[id],
     birthday |-> IF id % 2 = 1 THEN Some([year |-> 1990 + id, month |-> id, day |-> 10 + id])
                  ELSE None]

\* class Enclosure: id, environment, open_to_visitors
Enclosure(id) ==
    [tablename |-> "enclosures", id |-> id, environment |-> Environments[id],
     open_to_visitors |-> (id % 2 = 1)]

\* a foreign key column: NULL or the id of a row of the referred table
ForeignKeys(max) == {None} \cup {Some(i) : i \in 1..max}

\* the animals tables with primary keys 1..n
AnimalTables ==
    UNION {
        { {Animal(i, zk[i], en[i]) : i \in 1..n} :
            zk \in [1..n -> ForeignKeys(MaxKeepers)],
            en \in [1..n -> ForeignKeys(MaxEnclosures)] }
        : n \in 0..MaxAnimals }

\* ------------------------------------------------------------------------
\* models.py: relationships
\* ------------------------------------------------------------------------
Columns(row) == DOMAIN row \ {"tablename"}

\* names of the relationship attributes of a mapped class
Relationships(row) ==
    IF row.tablename = "animals" THEN {"zookeeper", "enclosure"} ELSE {"animals"}

\* Animal.zookeeper / Animal.enclosure: the row the foreign key refers to
ManyToOne(row, attr) ==
    LET target == IF attr = "zookeeper" THEN zookeepers ELSE enclosures
        fk == IF attr = "zookeeper" THEN row.zookeeper_id ELSE row.enclosure_id
        found == {t \in target : Some(t.id) = fk}
    IN  IF found = {} THEN None ELSE Some(CHOOSE t \in found : TRUE)

\* variant: both collections joined on enclosure_id
OneToMany_WrongKey(row, scan) ==
    LET mine(a) == a.enclosure_id = Some(row.id)
    IN  SelectSeq(scan, mine)

\* Zookeeper.animals / Enclosure.animals: the animals whose foreign key is
\* this row's id, in the order the table scan delivers them
OneToMany(row, scan) ==
    LET mine(a) == IF row.tablename = "zookeepers"
                   THEN a.zookeeper_id = Some(row.id)
                   ELSE a.enclosure_id = Some(row.id)
    IN  SelectSeq(scan, mine)

\* the orders in which a query without ORDER BY can deliver a set of rows
RECURSIVE Orderings(_)
Orderings(S) ==
    IF S = {} THEN {<<>>}
    ELSE UNION {{<<x>> \o rest : rest \in Orderings(S \ {x})} : x \in S}

\* the rows of a table by ascending primary key
RECURSIVE ById(_)
ById(S) ==
    IF S = {} THEN <<>>
    ELSE LET least == CHOOSE r \in S : \A q \in S : r.id <= q.id
         IN  <<least>> \o ById(S \ {least})

\* the scans of 'animals' that dumping obj may see: the lazy load of obj's
\* collection delivers its animals in any order (the other rows follow by
\* primary key); an Animal or None has no collection to load
Scans(obj) ==
    IF obj # None /\ "animals" \in Relationships(obj[1])
    THEN LET mine == {a \in animals : OneToMany(obj[1], <<a>>) # <<>>}
         IN  {o \o ById(animals \ mine) : o \in Orderings(mine)}
    ELSE {ById(animals)}

\* ------------------------------------------------------------------------
\* models.py: schemas
\* ------------------------------------------------------------------------
Schema(name, exclude) == [name |-> name, exclude |-> exclude]

\* declared fields of each schema class
DeclaredFields(name) ==
    CASE name = "AnimalSchema" -> {"id", "name", "species", "zookeeper", "enclosure"}
      [] name = "ZookeeperSchema" -> {"id", "name", "birthday", "animals"}
      [] name = "EnclosureSchema" -> {"id", "environment", "open_to_visitors", "animals"}

FieldType(name, f) ==
    CASE f = "id" -> "Int"
      [] f \in {"name", "species", "environment"} -> "String"
      [] f = "birthday" -> "DateTime"
      [] f = "open_to_visitors" -> "Boolean"
      [] f \in {"zookeeper", "enclosure"} -> "Nested"
      [] f = "animals" -> "List"

\* variant: the nested ZookeeperSchema built without exclude=("animals",)
AnimalSchema_zookeeper_NoExclude == Schema("ZookeeperSchema", {})

\* AnimalSchema.zookeeper = Nested(lambda: ZookeeperSchema(exclude=("animals",)))
AnimalSchema_zookeeper == Schema("ZookeeperSchema", {"animals"})

\* AnimalSchema.enclosure = Nested(lambda: EnclosureSchema(exclude=("animals",)))
AnimalSchema_enclosure == Schema("EnclosureSchema", {"animals"})

\* variant: the nested AnimalSchema built without exclude=("zookeeper",)
ZookeeperSchema_animals_NoExclude == Schema("AnimalSchema", {})

\* ZookeeperSchema.animals = List(Nested(AnimalSchema(exclude=("zookeeper",))))
ZookeeperSchema_animals == Schema("AnimalSchema", {"zookeeper"})

\* variant: the exclusion copied from ZookeeperSchema
EnclosureSchema_animals_WrongExclude == Schema("AnimalSchema", {"zookeeper"})

\* EnclosureSchema.animals = List(Nested(AnimalSchema(exclude=("enclosure",))))
EnclosureSchema_animals == Schema("AnimalSchema", {"enclosure"})

NestedSchema(name, f) ==
    CASE name = "AnimalSchema" /\ f = "zookeeper" -> AnimalSchema_zookeeper
      [] name = "AnimalSchema" /\ f = "enclosure" -> AnimalSchema_enclosure
      [] name = "ZookeeperSchema" /\ f = "animals" -> ZookeeperSchema_animals
      [] name = "EnclosureSchema" /\ f = "animals" -> EnclosureSchema_animals

\* variant: 'exclude' is ignored
DumpFields_NoExclude(schema) == DeclaredFields(schema.name)

\* the fields a schema instance dumps: the declared ones minus 'exclude'
DumpFields(schema) == DeclaredFields(schema.name) \ schema.exclude

\* ------------------------------------------------------------------------
\* marshmallow: Schema.dump
\* ------------------------------------------------------------------------
Pad2(n) == IF n < 10 THEN "0" \o ToString(n) ELSE ToString(n)

\* fields.DateTime() given a Date column: the value's isoformat()
isoformat(d) == ToString(d.year) \o "-" \o Pad2(d.month) \o "-" \o Pad2(d.day)

\* variant: a relationship that is None counts as a missing attribute
HasAttr_SkipNone(obj, f) ==
    /\ obj # None
    /\ f \in Columns(obj[1]) \cup Relationships(obj[1])
    /\ ~(f \in {"zookeeper", "enclosure"} /\ ManyToOne(obj[1], f) = None)

\* attribute lookup of a field on the dumped object; None has no attributes
HasAttr(obj, f) ==
    /\ obj # None
    /\ f \in Columns(obj[1]) \cup Relationships(obj[1])

RECURSIVE Dump(_, _, _, _)
RECURSIVE Serialize(_, _, _, _, _)

\* the value of field f of 'row' under 'schema'
Serialize(schema, f, row, scan, depth) ==
    LET type == FieldType(schema.name, f) IN
    CASE type = "Int" -> JInt(row[f])
      [] type = "String" -> JStr(row[f])
      [] type = "Boolean" -> JBool(row[f])
      [] type = "DateTime" ->
            IF row[f] = None THEN JNull ELSE JStr(isoformat(row[f][1]))
      [] type = "Nested" ->
            LET nested == ManyToOne(row, f) IN
            IF nested = None THEN JNull
            ELSE Dump(NestedSchema(schema.name, f), nested, scan, depth + 1)
      [] type = "List" ->
            LET list == OneToMany(row, scan) IN
            JList([i \in 1..Len(list) |->
                     Dump(NestedSchema(schema.name, f), Some(list[i]), scan, depth + 1)])

\* Schema.dump(obj): a mapping of every dumped field the object has
Dump(schema, obj, scan, depth) ==
    IF depth > RecursionLimit THEN RecursionError
    ELSE JMap([f \in {g \in DumpFields(schema) : HasAttr(obj, g)} |->
                  Serialize(schema, f, obj[1], scan, depth)])

\* whether a dump raised on the way
RECURSIVE Raised(_)
Raised(v) ==
    CASE v.type = "error" -> TRUE
      [] v.type = "map" -> \E k \in DOMAIN v.val : Raised(v.val[k])
      [] v.type = "list" -> \E i \in DOMAIN v.val : Raised(v.val[i])
      [] OTHER -> FALSE

\* ------------------------------------------------------------------------
\* app.py: routing
\* ------------------------------------------------------------------------
Digits == <<"0", "1", "2", "3", "4", "5", "6", "7", "8", "9">>

IsDigit(c) == \E i \in DOMAIN Digits : Digits[i] = c
DigitValue(c) == (CHOOSE i \in DOMAIN Digits : Digits[i] = c) - 1

\* a non-empty run of decimal digits
AllDigits(seg) ==
    /\ Len(seg) > 0
    /\ \A i \in DOMAIN seg : IsDigit(seg[i])

RECURSIVE DecimalValue(_)
DecimalValue(seg) ==
    IF seg = <<>> THEN 0
    ELSE 10 * DecimalValue(SubSeq(seg, 1, Len(seg) - 1)) + DigitValue(seg[Len(seg)])

\* variant: a converter that takes any non-empty segment
IntConverterMatches_Any(seg) == Len(seg) > 0

\* the 'int' converter of a rule: the segment matches \d+
IntConverterMatches(seg) == AllDigits(seg)

\* ... and is converted with int(), which also reads a sign and raises
\* ValueError (None) on anything else
to_python(seg) ==
    IF AllDigits(seg) THEN Some(DecimalValue(seg))
    ELSE IF Len(seg) > 1 /\ seg[1] = "-" /\ AllDigits(Tail(seg))
         THEN Some(0 - DecimalValue(Tail(seg)))
         ELSE None

\* path segments a client may send after /animals/, /zookeepers/, /enclosures/
Segments ==
    { <<>>, <<"1">>, <<"2">>, <<"3">>, <<"0", "2">>, <<"1", "2">>,
      <<"-", "1">>, <<"x">>, <<"1", "x">> }

Prefixes == {"animals", "zookeepers", "enclosures"}

Paths == {<<>>} \cup {<<p, s>> : p \in Prefixes, s \in Segments}

\* a rule '/<prefix>/<int:id>' matches the path
RuleMatches(prefix, path) ==
    /\ Len(path) = 2
    /\ path[1] = prefix
    /\ IntConverterMatches(path[2])

\* variant: Model.query.first(), the filter forgotten
First_NoFilter(table, id) ==
    IF table = {} THEN None
    ELSE Some(CHOOSE r \in table : \A q \in table : r.id <= q.id)

\* Model.query.filter(Model.id == id).first()
First(table, id) ==
    LET rows == {r \in table : r.id = id}
    IN  IF rows = {} THEN None ELSE Some(CHOOSE r \in rows : TRUE)

\* make_response(response_body): the mapping as a JSON body, status 200;
\* an exception raised by the view is answered with 500
InternalServerError == [status |-> 500, mimetype |-> "text/html", body |-> JNull]

\* variant: an empty mapping answered as 404
make_response_EmptyIs404(body) ==
    IF Raised(body) THEN InternalServerError
    ELSE IF body.val = <<>>
         THEN [status |-> 404, mimetype |-> "application/json", body |-> body]
         ELSE [status |-> 200, mimetype |-> "application/json", body |-> body]
make_response(body) ==
    IF Raised(body) THEN InternalServerError
    ELSE [status |-> 200, mimetype |-> "application/json", body |-> body]

\* ------------------------------------------------------------------------
\* app.py: views
\* ------------------------------------------------------------------------
NoRequest == <<"-">>
NoResponse == [status |-> 0, mimetype |-> "", body |-> JNull]

Init ==
    /\ animals \in AnimalTables
    /\ zookeepers = {Zookeeper(i) : i \in 1..MaxKeepers}
    /\ enclosures = {Enclosure(i) : i \in 1..MaxEnclosures}
    /\ request = NoRequest
    /\ response = NoResponse
    /\ queries = <<>>

\* @app.route('/')
index ==
    /\ request' = <<>>
    /\ response' = [status |-> 200, mimetype |-> "text/html",
                    body |-> JStr("<h1>Zoo app</h1>")]
    /\ queries' = <<>>
    /\ UNCHANGED store

\* @app.route('/animals/<int:id>')
animal_by_id(path) ==
    /\ RuleMatches("animals", path)
    /\ LET id == to_python(path[2]) IN
         IF id = None
         THEN response' = InternalServerError /\ queries' = <<>>
         ELSE LET animal == First(animals, id[1]) IN
              /\ \E scan \in Scans(animal) :
                   response' = make_response(
                       Dump(Schema("AnimalSchema", {}), animal, scan, 0))
              /\ queries' = <<[table |-> "animals", id |-> id[1]]>>
    /\ request' = path
    /\ UNCHANGED store

\* variant: the view detaches the zookeeper's animals before dumping it
zookeeper_by_id_Detaching(path) ==
    /\ RuleMatches("zookeepers", path)
    /\ LET id == to_python(path[2]) IN
         IF id = None
         THEN response' = InternalServerError /\ queries' = <<>> /\ UNCHANGED store
         ELSE LET zookeeper == First(zookeepers, id[1]) IN
              /\ response' = make_response(
                     Dump(Schema("ZookeeperSchema", {"animals"}), zookeeper, <<>>, 0))
              /\ queries' = <<[table |-> "zookeepers", id |-> id[1]]>>
              /\ animals' = {IF a.zookeeper_id = Some(id[1])
                             THEN [a EXCEPT !.zookeeper_id = None] ELSE a : a \in animals}
              /\ UNCHANGED <<zookeepers, enclosures>>
    /\ request' = path

\* @app.route('/zookeepers/<int:id>')
zookeeper_by_id(path) ==
    /\ RuleMatches("zookeepers", path)
    /\ LET id == to_python(path[2]) IN
         IF id = None
         THEN response' = InternalServerError /\ queries' = <<>>
         ELSE LET zookeeper == First(zookeepers, id[1]) IN
              /\ \E scan \in Scans(zookeeper) :
                   response' = make_response(
                       Dump(Schema("ZookeeperSchema", {}), zookeeper, scan, 0))
              /\ queries' = <<[table |-> "zookeepers", id |-> id[1]]>>
    /\ request' = path
    /\ UNCHANGED store

\* @app.route('/enclosures/<int:id>')
enclosure_by_id(path) ==
    /\ RuleMatches("enclosures", path)
    /\ LET id == to_python(path[2]) IN
         IF id = None
         THEN response' = InternalServerError /\ queries' = <<>>
         ELSE LET enclosure == First(enclosures, id[1]) IN
              /\ \E scan \in Scans(enclosure) :
                   response' = make_response(
                       Dump(Schema("EnclosureSchema", {}), enclosure, scan, 0))
              /\ queries' = <<[table |-> "enclosures", id |-> id[1]]>>
    /\ request' = path
    /\ UNCHANGED store

\* no rule matches the path: the routing layer answers 404 Not Found
NotFound == [status |-> 404, mimetype |-> "text/html", body |-> JNull]

not_found(path) ==
    /\ path # <<>>
    /\ \A p \in Prefixes : ~RuleMatches(p, path)
    /\ request' = path
    /\ response' = NotFound
    /\ queries' = <<>>
    /\ UNCHANGED store

Next ==
    \/ index
    \/ \E path \in Paths : animal_by_id(path)
    \/ \E path \in Paths : zookeeper_by_id(path)
    \/ \E path \in Paths : enclosure_by_id(path)
    \/ \E path \in Paths : not_found(path)

Spec == Init /\ [][Next]_vars

\* ------------------------------------------------------------------------
\* Vocabulary of the properties
\* ------------------------------------------------------------------------
\* the last request was for /<prefix>/<segment>
Requested(prefix) == Len(request) = 2 /\ request[1] = prefix

\* ... and its segment is the decimal numeral of id
RequestedId(prefix, id) ==
    /\ Requested(prefix)
    /\ AllDigits(request[2])
    /\ DecimalValue(request[2]) = id

Table(prefix) ==
    CASE prefix = "animals" -> animals
      [] prefix = "zookeepers" -> zookeepers
      [] prefix = "enclosures" -> enclosures

\* the segment is the text of an integer, signed or not
IsIntegerText(seg) ==
    \/ AllDigits(seg)
    \/ Len(seg) > 1 /\ seg[1] = "-" /\ AllDigits(Tail(seg))

IntegerValue(seg) ==
    IF AllDigits(seg) THEN DecimalValue(seg) ELSE 0 - DecimalValue(Tail(seg))

IsMap(v) == v.type = "map"
Keys(v) == DOMAIN v.val
IsEmptyMapping(v) == IsMap(v) /\ Keys(v) = {}
OkJson == response.status = 200 /\ response.mimetype = "application/json"

\* v renders zookeeper z without its animals
IsKeeperWithoutAnimals(v, z) ==
    /\ IsMap(v)
    /\ Keys(v) = {"id", "name", "birthday"}
    /\ v.val.id = JInt(z.id)
    /\ v.val.name = JStr(z.name)
    /\ v.val.birthday.type \in {"null", "str"}

\* v renders enclosure e without its animals
IsEnclosureWithoutAnimals(v, e) ==
    /\ IsMap(v)
    /\ Keys(v) = {"id", "environment", "open_to_visitors"}
    /\ v.val.id = JInt(e.id)
    /\ v.val.environment = JStr(e.environment)
    /\ v.val.open_to_visitors = JBool(e.open_to_visitors)

\* v carries the scalar fields of animal a
HasAnimalScalars(v, a) ==
    /\ IsMap(v)
    /\ {"id", "name", "species"} \subseteq Keys(v)
    /\ v.val.id = JInt(a.id)
    /\ v.val.name = JStr(a.name)
    /\ v.val.species = JStr(a.species)

Entries(v) == {v.val.animals.val[i] : i \in DOMAIN v.val.animals.val}

\* a string column that tells the records of the kind apart
KindField(prefix) ==
    CASE prefix = "animals" -> "species"
      [] prefix = "zookeepers" -> "name"
      [] prefix = "enclosures" -> "environment"

Max(S) == IF S = {} THEN 0 ELSE CHOOSE m \in S : \A n \in S : n <= m

\* the number of entity mappings on the deepest path of a rendering
RECURSIVE EntityLevels(_)
EntityLevels(v) ==
    CASE v.type = "map" -> 1 + Max({EntityLevels(v.val[k]) : k \in DOMAIN v.val})
      [] v.type = "list" -> Max({EntityLevels(v.val[i]) : i \in DOMAIN v.val})
      [] OTHER -> 0

KindOf(v) ==
    CASE "species" \in Keys(v) -> "animals"
      [] "birthday" \in Keys(v) -> "zookeepers"
      [] "environment" \in Keys(v) -> "enclosures"
      [] OTHER -> "unknown"

RECURSIVE NoReentry(_, _, _)
NoReentry(v, kind, id) ==
    CASE v.type = "map" ->
            /\ ~(KindOf(v) = kind /\ "id" \in Keys(v) /\ v.val.id = JInt(id))
            /\ \A k \in DOMAIN v.val : NoReentry(v.val[k], kind, id)
      [] v.type = "list" -> \A i \in DOMAIN v.val : NoReentry(v.val[i], kind, id)
      [] OTHER -> TRUE

RECURSIVE NoAnimalsKey(_)
NoAnimalsKey(v) ==
    CASE v.type = "map" ->
            /\ "animals" \notin Keys(v)
            /\ \A k \in DOMAIN v.val : NoAnimalsKey(v.val[k])
      [] v.type = "list" -> \A i \in DOMAIN v.val : NoAnimalsKey(v.val[i])
      [] OTHER -> TRUE

\* the body of GET /animals/{a.id}
AnimalRendering(a) == Dump(Schema("AnimalSchema", {}), Some(a), ById(animals), 0)

\* the id of the entity nested under key, if one is nested
NestedId(v, key) ==
    IF key \in Keys(v) /\ v.val[key].type = "map" THEN Some(v.val[key].val.id.val)
    ELSE None

Occurrences(v, a) ==
    Cardinality({i \in DOMAIN v.val.animals.val : v.val.animals.val[i].val.id = JInt(a.id)})

\* the key is there and its value is null
HasNull(v, key) == key \in Keys(v) /\ v.val[key] = JNull

\* ------------------------------------------------------------------------
\* C1: GET /animals/{id} of an existing animal answers a mapping with
\* exactly the keys id, name, species, zookeeper, enclosure; a zookeeper the
\* animal has is nested with id, name, birthday and without 'animals'; an
\* enclosure it has is nested with id, environment, open_to_visitors and
\* without 'animals'.
\* ------------------------------------------------------------------------
C1_AnimalRendering ==
    \A a \in animals : RequestedId("animals", a.id) =>
        /\ OkJson
        /\ HasAnimalScalars(response.body, a)
        /\ Keys(response.body) = {"id", "name", "species", "zookeeper", "enclosure"}
        /\ \A z \in zookeepers : a.zookeeper_id = Some(z.id) =>
               /\ IsKeeperWithoutAnimals(response.body.val.zookeeper, z)
               /\ "animals" \notin Keys(response.body.val.zookeeper)
        /\ \A e \in enclosures : a.enclosure_id = Some(e.id) =>
               /\ IsEnclosureWithoutAnimals(response.body.val.enclosure, e)
               /\ "animals" \notin Keys(response.body.val.enclosure)

C1_Witness ==
    \E a \in animals :
        /\ RequestedId("animals", a.id)
        /\ a.zookeeper_id # None /\ a.enclosure_id # None
        /\ IsMap(response.body)

\* ------------------------------------------------------------------------
\* C2: GET /zookeepers/{id} of an existing zookeeper answers id, name,
\* birthday and a list 'animals'; every entry has no 'zookeeper' key and
\* carries id, name, species and the animal's enclosure, itself rendered
\* without 'animals'.
\* ------------------------------------------------------------------------
C2_ZookeeperRendering ==
    \A z \in zookeepers : RequestedId("zookeepers", z.id) =>
        /\ OkJson
        /\ IsMap(response.body)
        /\ {"id", "name", "birthday", "animals"} \subseteq Keys(response.body)
        /\ response.body.val.id = JInt(z.id)
        /\ response.body.val.name = JStr(z.name)
        /\ response.body.val.birthday.type = IF z.birthday = None THEN "null" ELSE "str"
        /\ response.body.val.animals.type = "list"
        /\ \A entry \in Entries(response.body) :
               /\ IsMap(entry)
               /\ "zookeeper" \notin Keys(entry)
               /\ {"id", "name", "species", "enclosure"} \subseteq Keys(entry)
               /\ \E a \in animals :
                      /\ a.zookeeper_id = Some(z.id)
                      /\ HasAnimalScalars(entry, a)
                      /\ \A e \in enclosures : a.enclosure_id = Some(e.id) =>
                             /\ IsEnclosureWithoutAnimals(entry.val.enclosure, e)
                             /\ "animals" \notin Keys(entry.val.enclosure)

C2_Witness ==
    \E z \in zookeepers :
        /\ RequestedId("zookeepers", z.id)
        /\ IsMap(response.body)
        /\ \E a \in animals : a.zookeeper_id = Some(z.id) /\ a.enclosure_id # None
        /\ Len(response.body.val.animals.val) > 0

\* ------------------------------------------------------------------------
\* C3: GET /enclosures/{id} of an existing enclosure answers id,
\* environment, open_to_visitors and a list 'animals'; every entry has no
\* 'enclosure' key and carries id, name, species and the animal's
\* zookeeper, itself rendered without 'animals'.
\* ------------------------------------------------------------------------
C3_EnclosureRendering ==
    \A e \in enclosures : RequestedId("enclosures", e.id) =>
        /\ OkJson
        /\ IsMap(response.body)
        /\ {"id", "environment", "open_to_visitors", "animals"} \subseteq Keys(response.body)
        /\ response.body.val.id = JInt(e.id)
        /\ response.body.val.environment = JStr(e.environment)
        /\ response.body.val.open_to_visitors = JBool(e.open_to_visitors)
        /\ response.body.val.animals.type = "list"
        /\ \A entry \in Entries(response.body) :
               /\ IsMap(entry)
               /\ "enclosure" \notin Keys(entry)
               /\ {"id", "name", "species", "zookeeper"} \subseteq Keys(entry)
               /\ \E a \in animals :
                      /\ a.enclosure_id = Some(e.id)
                      /\ HasAnimalScalars(entry, a)
                      /\ \A z \in zookeepers : a.zookeeper_id = Some(z.id) =>
                             /\ IsKeeperWithoutAnimals(entry.val.zookeeper, z)
                             /\ "animals" \notin Keys(entry.val.zookeeper)

C3_Witness ==
    \E e \in enclosures :
        /\ RequestedId("enclosures", e.id)
        /\ IsMap(response.body)
        /\ \E a \in animals : a.enclosure_id = Some(e.id) /\ a.zookeeper_id # None
        /\ Len(response.body.val.animals.val) > 0

C5_LookupByKindAndId ==
    \A prefix \in Prefixes :
        (Requested(prefix) /\ AllDigits(request[2])) =>
            LET id == DecimalValue(request[2])
                rows == {r \in Table(prefix) : r.id = id}
            IN  /\ queries = <<[table |-> prefix, id |-> id]>>
                /\ IsMap(response.body)
                /\ (rows = {}) <=> (Keys(response.body) = {})
                /\ \A r \in rows :
                       /\ {"id", KindField(prefix)} \subseteq Keys(response.body)
                       /\ response.body.val.id = JInt(id)
                       /\ response.body.val[KindField(prefix)] = JStr(r[KindField(prefix)])

C5_Witness ==
    /\ RequestedId("enclosures", 2)
    /\ \A a \in animals : a.id # 2
    /\ IsMap(response.body) /\ Keys(response.body) # {}

\* ------------------------------------------------------------------------
\* C6: no request, found or not, changes the records: the three tables
\* are the same after every step.
\* ------------------------------------------------------------------------
C6_ReadOnly == [][store' = store]_vars

C6_Witness ==
    /\ RequestedId("zookeepers", 1)
    /\ \E a \in animals : a.zookeeper_id = Some(1)
    /\ response.status = 200

\* ------------------------------------------------------------------------
\* C7: a request whose id segment is not an integer is rejected by
\* routing: 404, no query issued, no mapping returned.
\* ------------------------------------------------------------------------
C7_NonIntegerRejected ==
    \A prefix \in Prefixes :
        (Requested(prefix) /\ ~IsIntegerText(request[2])) =>
            /\ response.status = 404
            /\ queries = <<>>
            /\ ~IsMap(response.body)

C7_Witness ==
    /\ Requested("animals")
    /\ request[2] = <<"1", "x">>
    /\ response.status = 404

\* ------------------------------------------------------------------------
\* C8: rendering any existing entity terminates; the root is not included
\* again inside its own rendering, there are at most two entity levels
\* below the root, and 'animals' occurs only at the top level of a
\* Zookeeper or Enclosure rendering.
\* ------------------------------------------------------------------------
C8_RenderingIsFinite ==
    \A prefix \in Prefixes : \A r \in Table(prefix) :
        RequestedId(prefix, r.id) =>
            /\ response.status = 200
            /\ IsMap(response.body)
            /\ EntityLevels(response.body) <= 3
            /\ prefix = "animals" => "animals" \notin Keys(response.body)
            /\ \A k \in Keys(response.body) :
                   /\ NoReentry(response.body.val[k], prefix, r.id)
                   /\ NoAnimalsKey(response.body.val[k])

C8_Witness ==
    \E z \in zookeepers : \E a \in animals :
        /\ RequestedId("zookeepers", z.id)
        /\ a.zookeeper_id = Some(z.id) /\ a.enclosure_id # None
        /\ response.status = 200
        /\ EntityLevels(response.body) = 3

\* ------------------------------------------------------------------------
\* C9: the reverse collections agree with the forward references: animal a
\* is in the 'animals' list of the rendering of zookeeper z, exactly once,
\* if and only if the rendering of a nests the zookeeper with id z; the
\* same between an enclosure's list and an animal's nested enclosure.
\* ------------------------------------------------------------------------
C9_ReverseCollections ==
    /\ \A z \in zookeepers : RequestedId("zookeepers", z.id) =>
           /\ OkJson
           /\ \A a \in animals :
                  Occurrences(response.body, a) =
                      IF NestedId(AnimalRendering(a), "zookeeper") = Some(z.id) THEN 1 ELSE 0
           /\ Len(response.body.val.animals.val) =
                  Cardinality({a \in animals : Occurrences(response.body, a) = 1})
    /\ \A e \in enclosures : RequestedId("enclosures", e.id) =>
           /\ OkJson
           /\ \A a \in animals :
                  Occurrences(response.body, a) =
                      IF NestedId(AnimalRendering(a), "enclosure") = Some(e.id) THEN 1 ELSE 0
           /\ Len(response.body.val.animals.val) =
                  Cardinality({a \in animals : Occurrences(response.body, a) = 1})

C9_Witness ==
    \E z \in zookeepers : \E a, b \in animals :
        /\ RequestedId("zookeepers", z.id)
        /\ response.status = 200
        /\ Occurrences(response.body, a) = 1
        /\ Occurrences(response.body, b) = 0
        /\ b.zookeeper_id # None

\* ------------------------------------------------------------------------
\* C10: an animal whose zookeeper or enclosure reference is null renders
\* without error, at the top level and as an entry of a list: the key is
\* present with a null value and the other fields are rendered as usual.
\* ------------------------------------------------------------------------
C10_NullReferences ==
    /\ \A a \in animals : RequestedId("animals", a.id) =>
           /\ OkJson
           /\ HasAnimalScalars(response.body, a)
           /\ a.zookeeper_id = None => HasNull(response.body, "zookeeper")
           /\ a.enclosure_id = None => HasNull(response.body, "enclosure")
           /\ (a.zookeeper_id = None /\ a.enclosure_id # None) =>
                  IsMap(response.body.val.enclosure)
           /\ (a.enclosure_id = None /\ a.zookeeper_id # None) =>
                  IsMap(response.body.val.zookeeper)
    /\ \A z \in zookeepers : RequestedId("zookeepers", z.id) =>
           /\ OkJson
           /\ \A a \in animals :
                  (a.zookeeper_id = Some(z.id) /\ a.enclosure_id = None) =>
                      \E entry \in Entries(response.body) :
                          HasAnimalScalars(entry, a) /\ HasNull(entry, "enclosure")
    /\ \A e \in enclosures : RequestedId("enclosures", e.id) =>
           /\ OkJson
           /\ \A a \in animals :
                  (a.enclosure_id = Some(e.id) /\ a.zookeeper_id = None) =>
                      \E entry \in Entries(response.body) :
                          HasAnimalScalars(entry, a) /\ HasNull(entry, "zookeeper")

C10_Witness ==
    \E e \in enclosures : \E a \in animals :
        /\ RequestedId("enclosures", e.id)
        /\ a.enclosure_id = Some(e.id) /\ a.zookeeper_id = None
        /\ response.status = 200
        /\ \E entry \in Entries(response.body) : HasNull(entry, "zookeeper")

====
